---- MODULE Spec2Model ----
(***************************************************************************)
(* ClarityCare (streamlit_app.py): the developer safety scanner            *)
(* safety_scan_topic, its string extractor collect, and the script that    *)
(* loads, filters, scans and renders the topics on every run.              *)
(*                                                                         *)
(* A Python str is a sequence of Unicode code points (65 is "A"); the      *)
(* comment beside a tuple gives its text.  A JSON value is a record        *)
(* [tag, text, num, keys, kids]; a dict keeps its keys and values as two   *)
(* sequences in insertion order, which is the order of dict.values().      *)
(***************************************************************************)
EXTENDS Integers, Sequences, FiniteSets, TLC

VARIABLES
    topics,       \* topics = load_topics(): what this run read from topics.json
    category,     \* the Category selectbox
    q,            \* the Search text input
    eli5_mode,    \* the "Show ELI5 summaries" toggle
    extra_detail, \* the "Show extra detail" toggle
    dev_mode,     \* the "Developer safety warnings" toggle
    filtered,     \* the topics that passed the category and search filters
    pc,           \* position of the script run: "card", "expander", "scan", "content", "done"
    idx,          \* index (1-based) in filtered of the topic being rendered
    strings,      \* safety_scan_topic: the local list strings
    si,           \* safety_scan_topic: position of the loop "for s in strings" (1-based)
    warnings,     \* safety_scan_topic: the local list warnings
    warns,        \* the module-level warns, the value the last call returned
    screen,       \* per displayed topic, the elements written for it in this run
    notice,       \* what ended the run early: "none", "missing", "nomatch", "exception"
    lastWarns     \* history: for each topic still in the file, what its last scan returned

vars == <<topics, category, q, eli5_mode, extra_detail, dev_mode, filtered, pc, idx,
          strings, si, warnings, warns, screen, notice, lastWarns>>

----------------------------------------------------------------------------
(* Program constants *)

LongSentenceWords == 25
ExcerptLen == 140
MaxShown == 8

CAT_ALL  == <<65,108,108>> (* 'All' *)
CAT_POST == <<80,111,115,116,45,68,105,97,103,110,111,115,105,115,32,67,111,109,112,97,110,105,111,110>> (* 'Post-Diagnosis Companion' *)
CATEGORIES == << CAT_ALL, <<69,118,101,114,121,100,97,121,32,83,121,109,112,116,111,109,115>> (* 'Everyday Symptoms' *), CAT_POST >>

BANNED_PHRASES ==
    << <<121,111,117,32,115,104,111,117,108,100,32,116,97,107,101>> (* 'you should take' *),
       <<116,97,107,101,32>> (* 'take ' *),
       <<103,111,32,116,111,32,116,104,101,32,101,114>> (* 'go to the er' *),
       <<100,111,110,39,116,32,110,101,101,100,32,97,32,100,111,99,116,111,114>> (* 'don't need a doctor' *),
       <<100,111,110,116,32,110,101,101,100,32,97,32,100,111,99,116,111,114>> (* 'dont need a doctor' *),
       <<109,111,115,116,32,108,105,107,101,108,121>> (* 'most likely' *),
       <<116,104,105,115,32,109,101,97,110,115,32,121,111,117,32,104,97,118,101>> (* 'this means you have' *),
       <<100,105,97,103,110,111,115,105,115,58>> (* 'diagnosis:' *),
       <<115,116,97,114,116,32,116,97,107,105,110,103>> (* 'start taking' *),
       <<115,116,111,112,32,116,97,107,105,110,103>> (* 'stop taking' *),
       <<100,111,115,101>> (* 'dose' *),
       <<100,111,115,97,103,101>> (* 'dosage' *) >>

----------------------------------------------------------------------------
(* Characters and Python's str methods *)

\* str.isspace(): the characters str.strip(), str.split() and the pattern \s treat as whitespace
Whitespace ==
    { 9, 10, 11, 12, 13, 28, 29, 30, 31, 32, 133, 160, 5760, 8192, 8193, 8194, 8195, 8196, 8197, 8198, 8199, 8200, 8201, 8202, 8232, 8233, 8239, 8287, 12288 }

\* the case table of str.lower(): <<first, last, step, offset>>, every step-th code point of
\* first..last maps to itself plus offset (U+0130 and U+03A3 are handled in LowerAt)
LowerRuns ==
    <<
      <<65, 90, 1, 32>>, <<192, 214, 1, 32>>, <<216, 222, 1, 32>>, <<256, 302, 2, 1>>, <<306, 310, 2, 1>>,
      <<313, 327, 2, 1>>, <<330, 374, 2, 1>>, <<376, 376, 1, -121>>, <<377, 381, 2, 1>>, <<385, 385, 1, 210>>,
      <<386, 388, 2, 1>>, <<390, 390, 1, 206>>, <<391, 391, 1, 1>>, <<393, 394, 1, 205>>, <<395, 395, 1, 1>>,
      <<398, 398, 1, 79>>, <<399, 399, 1, 202>>, <<400, 400, 1, 203>>, <<401, 401, 1, 1>>, <<403, 403, 1, 205>>,
      <<404, 404, 1, 207>>, <<406, 406, 1, 211>>, <<407, 407, 1, 209>>, <<408, 408, 1, 1>>, <<412, 412, 1, 211>>,
      <<413, 413, 1, 213>>, <<415, 415, 1, 214>>, <<416, 420, 2, 1>>, <<422, 422, 1, 218>>, <<423, 423, 1, 1>>,
      <<425, 425, 1, 218>>, <<428, 428, 1, 1>>, <<430, 430, 1, 218>>, <<431, 431, 1, 1>>, <<433, 434, 1, 217>>,
      <<435, 437, 2, 1>>, <<439, 439, 1, 219>>, <<440, 440, 1, 1>>, <<444, 444, 1, 1>>, <<452, 452, 1, 2>>,
      <<453, 453, 1, 1>>, <<455, 455, 1, 2>>, <<456, 456, 1, 1>>, <<458, 458, 1, 2>>, <<459, 475, 2, 1>>,
      <<478, 494, 2, 1>>, <<497, 497, 1, 2>>, <<498, 500, 2, 1>>, <<502, 502, 1, -97>>, <<503, 503, 1, -56>>,
      <<504, 542, 2, 1>>, <<544, 544, 1, -130>>, <<546, 562, 2, 1>>, <<570, 570, 1, 10795>>, <<571, 571, 1, 1>>,
      <<573, 573, 1, -163>>, <<574, 574, 1, 10792>>, <<577, 577, 1, 1>>, <<579, 579, 1, -195>>, <<580, 580, 1, 69>>,
      <<581, 581, 1, 71>>, <<582, 590, 2, 1>>, <<880, 882, 2, 1>>, <<886, 886, 1, 1>>, <<895, 895, 1, 116>>,
      <<902, 902, 1, 38>>, <<904, 906, 1, 37>>, <<908, 908, 1, 64>>, <<910, 911, 1, 63>>, <<913, 929, 1, 32>>,
      <<932, 939, 1, 32>>, <<975, 975, 1, 8>>, <<984, 1006, 2, 1>>, <<1012, 1012, 1, -60>>, <<1015, 1015, 1, 1>>,
      <<1017, 1017, 1, -7>>, <<1018, 1018, 1, 1>>, <<1021, 1023, 1, -130>>, <<1024, 1039, 1, 80>>, <<1040, 1071, 1, 32>>,
      <<1120, 1152, 2, 1>>, <<1162, 1214, 2, 1>>, <<1216, 1216, 1, 15>>, <<1217, 1229, 2, 1>>, <<1232, 1326, 2, 1>>,
      <<1329, 1366, 1, 48>>, <<4256, 4293, 1, 7264>>, <<4295, 4295, 1, 7264>>, <<4301, 4301, 1, 7264>>, <<5024, 5103, 1, 38864>>,
      <<5104, 5109, 1, 8>>, <<7312, 7354, 1, -3008>>, <<7357, 7359, 1, -3008>>, <<7680, 7828, 2, 1>>, <<7838, 7838, 1, -7615>>,
      <<7840, 7934, 2, 1>>, <<7944, 7951, 1, -8>>, <<7960, 7965, 1, -8>>, <<7976, 7983, 1, -8>>, <<7992, 7999, 1, -8>>,
      <<8008, 8013, 1, -8>>, <<8025, 8031, 2, -8>>, <<8040, 8047, 1, -8>>, <<8072, 8079, 1, -8>>, <<8088, 8095, 1, -8>>,
      <<8104, 8111, 1, -8>>, <<8120, 8121, 1, -8>>, <<8122, 8123, 1, -74>>, <<8124, 8124, 1, -9>>, <<8136, 8139, 1, -86>>,
      <<8140, 8140, 1, -9>>, <<8152, 8153, 1, -8>>, <<8154, 8155, 1, -100>>, <<8168, 8169, 1, -8>>, <<8170, 8171, 1, -112>>,
      <<8172, 8172, 1, -7>>, <<8184, 8185, 1, -128>>, <<8186, 8187, 1, -126>>, <<8188, 8188, 1, -9>>, <<8486, 8486, 1, -7517>>,
      <<8490, 8490, 1, -8383>>, <<8491, 8491, 1, -8262>>, <<8498, 8498, 1, 28>>, <<8544, 8559, 1, 16>>, <<8579, 8579, 1, 1>>,
      <<9398, 9423, 1, 26>>, <<11264, 11311, 1, 48>>, <<11360, 11360, 1, 1>>, <<11362, 11362, 1, -10743>>, <<11363, 11363, 1, -3814>>,
      <<11364, 11364, 1, -10727>>, <<11367, 11371, 2, 1>>, <<11373, 11373, 1, -10780>>, <<11374, 11374, 1, -10749>>, <<11375, 11375, 1, -10783>>,
      <<11376, 11376, 1, -10782>>, <<11378, 11378, 1, 1>>, <<11381, 11381, 1, 1>>, <<11390, 11391, 1, -10815>>, <<11392, 11490, 2, 1>>,
      <<11499, 11501, 2, 1>>, <<11506, 11506, 1, 1>>, <<42560, 42604, 2, 1>>, <<42624, 42650, 2, 1>>, <<42786, 42798, 2, 1>>,
      <<42802, 42862, 2, 1>>, <<42873, 42875, 2, 1>>, <<42877, 42877, 1, -35332>>, <<42878, 42886, 2, 1>>, <<42891, 42891, 1, 1>>,
      <<42893, 42893, 1, -42280>>, <<42896, 42898, 2, 1>>, <<42902, 42920, 2, 1>>, <<42922, 42922, 1, -42308>>, <<42923, 42923, 1, -42319>>,
      <<42924, 42924, 1, -42315>>, <<42925, 42925, 1, -42305>>, <<42926, 42926, 1, -42308>>, <<42928, 42928, 1, -42258>>, <<42929, 42929, 1, -42282>>,
      <<42930, 42930, 1, -42261>>, <<42931, 42931, 1, 928>>, <<42932, 42946, 2, 1>>, <<42948, 42948, 1, -48>>, <<42949, 42949, 1, -42307>>,
      <<42950, 42950, 1, -35384>>, <<42951, 42953, 2, 1>>, <<42960, 42960, 1, 1>>, <<42966, 42968, 2, 1>>, <<42997, 42997, 1, 1>>,
      <<65313, 65338, 1, 32>>, <<66560, 66599, 1, 40>>, <<66736, 66771, 1, 40>>, <<66928, 66938, 1, 39>>, <<66940, 66954, 1, 39>>,
      <<66956, 66962, 1, 39>>, <<66964, 66965, 1, 39>>, <<68736, 68786, 1, 64>>, <<71840, 71871, 1, 32>>, <<93760, 93791, 1, 32>>,
      <<125184, 125217, 1, 34>> >>

\* the case-ignorable characters str.lower() skips around a capital sigma: <<first, last>>
CaseIgnorableRanges ==
    <<
      <<39, 39>>, <<46, 46>>, <<58, 58>>, <<94, 94>>, <<96, 96>>, <<168, 168>>,
      <<173, 173>>, <<175, 175>>, <<180, 180>>, <<183, 184>>, <<688, 879>>, <<884, 885>>,
      <<890, 890>>, <<900, 901>>, <<903, 903>>, <<1155, 1161>>, <<1369, 1369>>, <<1375, 1375>>,
      <<1425, 1469>>, <<1471, 1471>>, <<1473, 1474>>, <<1476, 1477>>, <<1479, 1479>>, <<1524, 1524>>,
      <<1536, 1541>>, <<1552, 1562>>, <<1564, 1564>>, <<1600, 1600>>, <<1611, 1631>>, <<1648, 1648>>,
      <<1750, 1757>>, <<1759, 1768>>, <<1770, 1773>>, <<1807, 1807>>, <<1809, 1809>>, <<1840, 1866>>,
      <<1958, 1968>>, <<2027, 2037>>, <<2042, 2042>>, <<2045, 2045>>, <<2070, 2093>>, <<2137, 2139>>,
      <<2184, 2184>>, <<2192, 2193>>, <<2200, 2207>>, <<2249, 2306>>, <<2362, 2362>>, <<2364, 2364>>,
      <<2369, 2376>>, <<2381, 2381>>, <<2385, 2391>>, <<2402, 2403>>, <<2417, 2417>>, <<2433, 2433>>,
      <<2492, 2492>>, <<2497, 2500>>, <<2509, 2509>>, <<2530, 2531>>, <<2558, 2558>>, <<2561, 2562>>,
      <<2620, 2620>>, <<2625, 2626>>, <<2631, 2632>>, <<2635, 2637>>, <<2641, 2641>>, <<2672, 2673>>,
      <<2677, 2677>>, <<2689, 2690>>, <<2748, 2748>>, <<2753, 2757>>, <<2759, 2760>>, <<2765, 2765>>,
      <<2786, 2787>>, <<2810, 2815>>, <<2817, 2817>>, <<2876, 2876>>, <<2879, 2879>>, <<2881, 2884>>,
      <<2893, 2893>>, <<2901, 2902>>, <<2914, 2915>>, <<2946, 2946>>, <<3008, 3008>>, <<3021, 3021>>,
      <<3072, 3072>>, <<3076, 3076>>, <<3132, 3132>>, <<3134, 3136>>, <<3142, 3144>>, <<3146, 3149>>,
      <<3157, 3158>>, <<3170, 3171>>, <<3201, 3201>>, <<3260, 3260>>, <<3263, 3263>>, <<3270, 3270>>,
      <<3276, 3277>>, <<3298, 3299>>, <<3328, 3329>>, <<3387, 3388>>, <<3393, 3396>>, <<3405, 3405>>,
      <<3426, 3427>>, <<3457, 3457>>, <<3530, 3530>>, <<3538, 3540>>, <<3542, 3542>>, <<3633, 3633>>,
      <<3636, 3642>>, <<3654, 3662>>, <<3761, 3761>>, <<3764, 3772>>, <<3782, 3782>>, <<3784, 3789>>,
      <<3864, 3865>>, <<3893, 3893>>, <<3895, 3895>>, <<3897, 3897>>, <<3953, 3966>>, <<3968, 3972>>,
      <<3974, 3975>>, <<3981, 3991>>, <<3993, 4028>>, <<4038, 4038>>, <<4141, 4144>>, <<4146, 4151>>,
      <<4153, 4154>>, <<4157, 4158>>, <<4184, 4185>>, <<4190, 4192>>, <<4209, 4212>>, <<4226, 4226>>,
      <<4229, 4230>>, <<4237, 4237>>, <<4253, 4253>>, <<4348, 4348>>, <<4957, 4959>>, <<5906, 5908>>,
      <<5938, 5939>>, <<5970, 5971>>, <<6002, 6003>>, <<6068, 6069>>, <<6071, 6077>>, <<6086, 6086>>,
      <<6089, 6099>>, <<6103, 6103>>, <<6109, 6109>>, <<6155, 6159>>, <<6211, 6211>>, <<6277, 6278>>,
      <<6313, 6313>>, <<6432, 6434>>, <<6439, 6440>>, <<6450, 6450>>, <<6457, 6459>>, <<6679, 6680>>,
      <<6683, 6683>>, <<6742, 6742>>, <<6744, 6750>>, <<6752, 6752>>, <<6754, 6754>>, <<6757, 6764>>,
      <<6771, 6780>>, <<6783, 6783>>, <<6823, 6823>>, <<6832, 6862>>, <<6912, 6915>>, <<6964, 6964>>,
      <<6966, 6970>>, <<6972, 6972>>, <<6978, 6978>>, <<7019, 7027>>, <<7040, 7041>>, <<7074, 7077>>,
      <<7080, 7081>>, <<7083, 7085>>, <<7142, 7142>>, <<7144, 7145>>, <<7149, 7149>>, <<7151, 7153>>,
      <<7212, 7219>>, <<7222, 7223>>, <<7288, 7293>>, <<7376, 7378>>, <<7380, 7392>>, <<7394, 7400>>,
      <<7405, 7405>>, <<7412, 7412>>, <<7416, 7417>>, <<7468, 7530>>, <<7544, 7544>>, <<7579, 7679>>,
      <<8125, 8125>>, <<8127, 8129>>, <<8141, 8143>>, <<8157, 8159>>, <<8173, 8175>>, <<8189, 8190>>,
      <<8203, 8207>>, <<8216, 8217>>, <<8228, 8228>>, <<8231, 8231>>, <<8234, 8238>>, <<8288, 8292>>,
      <<8294, 8303>>, <<8305, 8305>>, <<8319, 8319>>, <<8336, 8348>>, <<8400, 8432>>, <<11388, 11389>>,
      <<11503, 11505>>, <<11631, 11631>>, <<11647, 11647>>, <<11744, 11775>>, <<11823, 11823>>, <<12293, 12293>>,
      <<12330, 12333>>, <<12337, 12341>>, <<12347, 12347>>, <<12441, 12446>>, <<12540, 12542>>, <<40981, 40981>>,
      <<42232, 42237>>, <<42508, 42508>>, <<42607, 42610>>, <<42612, 42621>>, <<42623, 42623>>, <<42652, 42655>>,
      <<42736, 42737>>, <<42752, 42785>>, <<42864, 42864>>, <<42888, 42890>>, <<42994, 42996>>, <<43000, 43001>>,
      <<43010, 43010>>, <<43014, 43014>>, <<43019, 43019>>, <<43045, 43046>>, <<43052, 43052>>, <<43204, 43205>>,
      <<43232, 43249>>, <<43263, 43263>>, <<43302, 43309>>, <<43335, 43345>>, <<43392, 43394>>, <<43443, 43443>>,
      <<43446, 43449>>, <<43452, 43453>>, <<43471, 43471>>, <<43493, 43494>>, <<43561, 43566>>, <<43569, 43570>>,
      <<43573, 43574>>, <<43587, 43587>>, <<43596, 43596>>, <<43632, 43632>>, <<43644, 43644>>, <<43696, 43696>>,
      <<43698, 43700>>, <<43703, 43704>>, <<43710, 43711>>, <<43713, 43713>>, <<43741, 43741>>, <<43756, 43757>>,
      <<43763, 43764>>, <<43766, 43766>>, <<43867, 43871>>, <<43881, 43883>>, <<44005, 44005>>, <<44008, 44008>>,
      <<44013, 44013>>, <<64286, 64286>>, <<64434, 64450>>, <<65024, 65039>>, <<65043, 65043>>, <<65056, 65071>>,
      <<65106, 65106>>, <<65109, 65109>>, <<65279, 65279>>, <<65287, 65287>>, <<65294, 65294>>, <<65306, 65306>>,
      <<65342, 65342>>, <<65344, 65344>>, <<65392, 65392>>, <<65438, 65439>>, <<65507, 65507>>, <<65529, 65531>>,
      <<66045, 66045>>, <<66272, 66272>>, <<66422, 66426>>, <<67456, 67461>>, <<67463, 67504>>, <<67506, 67514>>,
      <<68097, 68099>>, <<68101, 68102>>, <<68108, 68111>>, <<68152, 68154>>, <<68159, 68159>>, <<68325, 68326>>,
      <<68900, 68903>>, <<69291, 69292>>, <<69446, 69456>>, <<69506, 69509>>, <<69633, 69633>>, <<69688, 69702>>,
      <<69744, 69744>>, <<69747, 69748>>, <<69759, 69761>>, <<69811, 69814>>, <<69817, 69818>>, <<69821, 69821>>,
      <<69826, 69826>>, <<69837, 69837>>, <<69888, 69890>>, <<69927, 69931>>, <<69933, 69940>>, <<70003, 70003>>,
      <<70016, 70017>>, <<70070, 70078>>, <<70089, 70092>>, <<70095, 70095>>, <<70191, 70193>>, <<70196, 70196>>,
      <<70198, 70199>>, <<70206, 70206>>, <<70367, 70367>>, <<70371, 70378>>, <<70400, 70401>>, <<70459, 70460>>,
      <<70464, 70464>>, <<70502, 70508>>, <<70512, 70516>>, <<70712, 70719>>, <<70722, 70724>>, <<70726, 70726>>,
      <<70750, 70750>>, <<70835, 70840>>, <<70842, 70842>>, <<70847, 70848>>, <<70850, 70851>>, <<71090, 71093>>,
      <<71100, 71101>>, <<71103, 71104>>, <<71132, 71133>>, <<71219, 71226>>, <<71229, 71229>>, <<71231, 71232>>,
      <<71339, 71339>>, <<71341, 71341>>, <<71344, 71349>>, <<71351, 71351>>, <<71453, 71455>>, <<71458, 71461>>,
      <<71463, 71467>>, <<71727, 71735>>, <<71737, 71738>>, <<71995, 71996>>, <<71998, 71998>>, <<72003, 72003>>,
      <<72148, 72151>>, <<72154, 72155>>, <<72160, 72160>>, <<72193, 72202>>, <<72243, 72248>>, <<72251, 72254>>,
      <<72263, 72263>>, <<72273, 72278>>, <<72281, 72283>>, <<72330, 72342>>, <<72344, 72345>>, <<72752, 72758>>,
      <<72760, 72765>>, <<72767, 72767>>, <<72850, 72871>>, <<72874, 72880>>, <<72882, 72883>>, <<72885, 72886>>,
      <<73009, 73014>>, <<73018, 73018>>, <<73020, 73021>>, <<73023, 73029>>, <<73031, 73031>>, <<73104, 73105>>,
      <<73109, 73109>>, <<73111, 73111>>, <<73459, 73460>>, <<78896, 78904>>, <<92912, 92916>>, <<92976, 92982>>,
      <<92992, 92995>>, <<94031, 94031>>, <<94095, 94111>>, <<94176, 94177>>, <<94179, 94180>>, <<110576, 110579>>,
      <<110581, 110587>>, <<110589, 110590>>, <<113821, 113822>>, <<113824, 113827>>, <<118528, 118573>>, <<118576, 118598>>,
      <<119143, 119145>>, <<119155, 119170>>, <<119173, 119179>>, <<119210, 119213>>, <<119362, 119364>>, <<121344, 121398>>,
      <<121403, 121452>>, <<121461, 121461>>, <<121476, 121476>>, <<121499, 121503>>, <<121505, 121519>>, <<122880, 122886>>,
      <<122888, 122904>>, <<122907, 122913>>, <<122915, 122916>>, <<122918, 122922>>, <<123184, 123197>>, <<123566, 123566>>,
      <<123628, 123631>>, <<125136, 125142>>, <<125252, 125259>>, <<127995, 127999>>, <<917505, 917505>>, <<917536, 917631>>,
      <<917760, 917999>> >>

\* the cased characters that are not case-ignorable: <<first, last>>
CasedRanges ==
    <<
      <<65, 90>>, <<97, 122>>, <<170, 170>>, <<181, 181>>, <<186, 186>>, <<192, 214>>,
      <<216, 246>>, <<248, 442>>, <<444, 447>>, <<452, 659>>, <<661, 687>>, <<880, 883>>,
      <<886, 887>>, <<891, 893>>, <<895, 895>>, <<902, 902>>, <<904, 906>>, <<908, 908>>,
      <<910, 929>>, <<931, 1013>>, <<1015, 1153>>, <<1162, 1327>>, <<1329, 1366>>, <<1376, 1416>>,
      <<4256, 4293>>, <<4295, 4295>>, <<4301, 4301>>, <<4304, 4346>>, <<4349, 4351>>, <<5024, 5109>>,
      <<5112, 5117>>, <<7296, 7304>>, <<7312, 7354>>, <<7357, 7359>>, <<7424, 7467>>, <<7531, 7543>>,
      <<7545, 7578>>, <<7680, 7957>>, <<7960, 7965>>, <<7968, 8005>>, <<8008, 8013>>, <<8016, 8023>>,
      <<8025, 8025>>, <<8027, 8027>>, <<8029, 8029>>, <<8031, 8061>>, <<8064, 8116>>, <<8118, 8124>>,
      <<8126, 8126>>, <<8130, 8132>>, <<8134, 8140>>, <<8144, 8147>>, <<8150, 8155>>, <<8160, 8172>>,
      <<8178, 8180>>, <<8182, 8188>>, <<8450, 8450>>, <<8455, 8455>>, <<8458, 8467>>, <<8469, 8469>>,
      <<8473, 8477>>, <<8484, 8484>>, <<8486, 8486>>, <<8488, 8488>>, <<8490, 8493>>, <<8495, 8500>>,
      <<8505, 8505>>, <<8508, 8511>>, <<8517, 8521>>, <<8526, 8526>>, <<8544, 8575>>, <<8579, 8580>>,
      <<9398, 9449>>, <<11264, 11387>>, <<11390, 11492>>, <<11499, 11502>>, <<11506, 11507>>, <<11520, 11557>>,
      <<11559, 11559>>, <<11565, 11565>>, <<42560, 42605>>, <<42624, 42651>>, <<42786, 42863>>, <<42865, 42887>>,
      <<42891, 42894>>, <<42896, 42954>>, <<42960, 42961>>, <<42963, 42963>>, <<42965, 42969>>, <<42997, 42998>>,
      <<43002, 43002>>, <<43824, 43866>>, <<43872, 43880>>, <<43888, 43967>>, <<64256, 64262>>, <<64275, 64279>>,
      <<65313, 65338>>, <<65345, 65370>>, <<66560, 66639>>, <<66736, 66771>>, <<66776, 66811>>, <<66928, 66938>>,
      <<66940, 66954>>, <<66956, 66962>>, <<66964, 66965>>, <<66967, 66977>>, <<66979, 66993>>, <<66995, 67001>>,
      <<67003, 67004>>, <<68736, 68786>>, <<68800, 68850>>, <<71840, 71903>>, <<93760, 93823>>, <<119808, 119892>>,
      <<119894, 119964>>, <<119966, 119967>>, <<119970, 119970>>, <<119973, 119974>>, <<119977, 119980>>, <<119982, 119993>>,
      <<119995, 119995>>, <<119997, 120003>>, <<120005, 120069>>, <<120071, 120074>>, <<120077, 120084>>, <<120086, 120092>>,
      <<120094, 120121>>, <<120123, 120126>>, <<120128, 120132>>, <<120134, 120134>>, <<120138, 120144>>, <<120146, 120485>>,
      <<120488, 120512>>, <<120514, 120538>>, <<120540, 120570>>, <<120572, 120596>>, <<120598, 120628>>, <<120630, 120654>>,
      <<120656, 120686>>, <<120688, 120712>>, <<120714, 120744>>, <<120746, 120770>>, <<120772, 120779>>, <<122624, 122633>>,
      <<122635, 122654>>, <<125184, 125251>>, <<127280, 127305>>, <<127312, 127337>>, <<127344, 127369>> >>

\* the characters of the pattern [.!?]
Terminators == { 46, 33, 63 }

SetMin(S) == CHOOSE x \in S : \A y \in S : x <= y
SetMax(S) == CHOOSE x \in S : \A y \in S : x >= y

\* s[:n]
Take(s, n) == SubSeq(s, 1, IF Len(s) < n THEN Len(s) ELSE n)

InRanges(c, rs) == \E k \in 1..Len(rs) : rs[k][1] <= c /\ c <= rs[k][2]
IsCaseIgnorable(c) == InRanges(c, CaseIgnorableRanges)
IsCased(c) == InRanges(c, CasedRanges)

\* the lowercase of one character that maps to one character
LowerChar(c) ==
    IF c < 128 THEN (IF 65 <= c /\ c <= 90 THEN c + 32 ELSE c)
    ELSE LET hit == {k \in 1..Len(LowerRuns) :
                        /\ LowerRuns[k][1] <= c /\ c <= LowerRuns[k][2]
                        /\ (c - LowerRuns[k][1]) % LowerRuns[k][3] = 0}
         IN  IF hit = {} THEN c ELSE c + LowerRuns[SetMin(hit)][4]

\* a capital sigma at position i ends a word: a cased letter before it and none after it,
\* case-ignorable characters skipped on both sides
FinalSigma(s, i) ==
    LET before == {j \in 1..(i - 1) : ~IsCaseIgnorable(s[j])}
        after  == {j \in (i + 1)..Len(s) : ~IsCaseIgnorable(s[j])}
    IN  /\ before # {}
        /\ IsCased(s[SetMax(before)])
        /\ (after = {} \/ ~IsCased(s[SetMin(after)]))

\* what s.lower() writes for the character at position i
LowerAt(s, i) ==
    IF s[i] = 304 THEN <<105, 775>>
    ELSE IF s[i] = 931 THEN (IF FinalSigma(s, i) THEN <<962>> ELSE <<963>>)
    ELSE <<LowerChar(s[i])>>

RECURSIVE LowerFrom(_, _)
LowerFrom(s, i) == IF i > Len(s) THEN <<>> ELSE LowerAt(s, i) \o LowerFrom(s, i + 1)

\* s.lower()
Lower(s) ==
    IF \A i \in 1..Len(s) : s[i] < 128
    THEN [i \in 1..Len(s) |-> LowerChar(s[i])]
    ELSE LowerFrom(s, 1)

\* p in s
IsSubstring(p, s) ==
    \E i \in 1..(Len(s) - Len(p) + 1) : SubSeq(s, i, i + Len(p) - 1) = p

\* s.strip()
Strip(s) ==
    LET nw == {i \in 1..Len(s) : s[i] \notin Whitespace}
    IN  IF nw = {} THEN <<>> ELSE SubSeq(s, SetMin(nw), SetMax(nw))

\* len(s.split()): the number of maximal runs of non-whitespace characters
WordCount(s) ==
    Cardinality({i \in 1..Len(s) :
                    /\ s[i] \notin Whitespace
                    /\ (i = 1 \/ s[i-1] \in Whitespace)})

\* re.split(r"[.!?]", s): the pieces between terminators, empty pieces kept
RECURSIVE SplitSentences(_)
SplitSentences(s) ==
    LET ts == {i \in 1..Len(s) : s[i] \in Terminators}
    IN  IF ts = {} THEN <<s>>
        ELSE LET i == SetMin(ts)
             IN  <<SubSeq(s, 1, i - 1)>> \o SplitSentences(SubSeq(s, i + 1, Len(s)))

\* re.sub(r"\s+", " ", s): every maximal whitespace run becomes one space (32); the other
\* characters of a run are marked -1 and dropped
CollapseWhitespace(s) ==
    SelectSeq([i \in 1..Len(s) |->
                  IF s[i] \notin Whitespace THEN s[i]
                  ELSE IF i = 1 \/ s[i-1] \notin Whitespace THEN 32 ELSE -1],
              LAMBDA c : c # -1)

\* re.sub(r"\s+", " ", (s or "")).strip().lower()
normalize_text(s) == Lower(Strip(CollapseWhitespace(s)))

\* the decimal digits an f-string writes for a non-negative int ("0" is 48)
RECURSIVE ToDecimal(_)
ToDecimal(n) ==
    IF n < 10 THEN <<48 + n>>
    ELSE ToDecimal(n \div 10) \o <<48 + (n % 10)>>

\* " ".join(parts)
RECURSIVE JoinWithSpace(_)
JoinWithSpace(parts) ==
    IF parts = <<>> THEN <<>>
    ELSE IF Len(parts) = 1 THEN parts[1]
    ELSE parts[1] \o <<32>> \o JoinWithSpace(Tail(parts))

----------------------------------------------------------------------------
(* JSON values, as json.load builds them *)

Str(s)        == [tag |-> "str",  text |-> s,    num |-> 0, keys |-> <<>>, kids |-> <<>>]
Num(n)        == [tag |-> "num",  text |-> <<>>, num |-> n, keys |-> <<>>, kids |-> <<>>]
Bool(b)       == [tag |-> "bool", text |-> <<>>, num |-> IF b THEN 1 ELSE 0, keys |-> <<>>, kids |-> <<>>]
Null          == [tag |-> "null", text |-> <<>>, num |-> 0, keys |-> <<>>, kids |-> <<>>]
List(items)   == [tag |-> "list", text |-> <<>>, num |-> 0, keys |-> <<>>, kids |-> items]
Dict(ks, vs)  == [tag |-> "dict", text |-> <<>>, num |-> 0, keys |-> ks,   kids |-> vs]

\* key in t
Has(t, key) == \E i \in 1..Len(t.keys) : t.keys[i] = key
\* t.get(key, default)
Get(t, key, default) ==
    IF Has(t, key) THEN t.kids[CHOOSE i \in 1..Len(t.keys) : t.keys[i] = key] ELSE default

\* bool(v)
Truthy(v) ==
    CASE v.tag = "str"  -> v.text # <<>>
      [] v.tag = "list" -> v.kids # <<>>
      [] v.tag = "dict" -> v.kids # <<>>
      [] v.tag = "num"  -> v.num # 0
      [] v.tag = "bool" -> v.num # 0
      [] OTHER          -> FALSE

\* "for item in v" raises TypeError: v is not iterable
NotIterable(v) == v.tag \in {"num", "bool", "null"}

----------------------------------------------------------------------------
(* matches_search and the filter loop *)

K_title            == <<116,105,116,108,101>> (* 'title' *)
K_oneMinuteSummary == <<111,110,101,77,105,110,117,116,101,83,117,109,109,97,114,121>> (* 'oneMinuteSummary' *)
K_eli5Summary      == <<101,108,105,53,83,117,109,109,97,114,121>> (* 'eli5Summary' *)
K_category         == <<99,97,116,101,103,111,114,121>> (* 'category' *)
K_extraDetail      == <<101,120,116,114,97,68,101,116,97,105,108>> (* 'extraDetail' *)
K_whatsHappening   == <<119,104,97,116,115,72,97,112,112,101,110,105,110,103>> (* 'whatsHappening' *)
K_analogy          == <<97,110,97,108,111,103,121>> (* 'analogy' *)
K_peopleOftenNotice == <<112,101,111,112,108,101,79,102,116,101,110,78,111,116,105,99,101>> (* 'peopleOftenNotice' *)
K_generalSelfCare  == <<103,101,110,101,114,97,108,83,101,108,102,67,97,114,101>> (* 'generalSelfCare' *)
K_questionsForClinician == <<113,117,101,115,116,105,111,110,115,70,111,114,67,108,105,110,105,99,105,97,110>> (* 'questionsForClinician' *)
K_visuals          == <<118,105,115,117,97,108,115>> (* 'visuals' *)
K_videos           == <<118,105,100,101,111,115>> (* 'videos' *)
K_resources        == <<114,101,115,111,117,114,99,101,115>> (* 'resources' *)
K_src              == <<115,114,99>> (* 'src' *)
K_lastReviewed     == <<108,97,115,116,82,101,118,105,101,119,101,100>> (* 'lastReviewed' *)

\* the three values matches_search joins
HayParts(topic) ==
    << Get(topic, K_title, Str(<<>>)),
       Get(topic, K_oneMinuteSummary, Str(<<>>)),
       Get(topic, K_eli5Summary, Str(<<>>)) >>

\* matches_search raises: topic.get on a non-dict, or " ".join over a non-str
SearchRaises(topic, query) ==
    /\ query # <<>>
    /\ \/ topic.tag # "dict"
       \/ \E k \in 1..3 : HayParts(topic)[k].tag # "str"

\* matches_search(topic, q), when it does not raise
matches_search(topic, query) ==
    IF query = <<>> THEN TRUE
    ELSE IsSubstring(normalize_text(query),
                     normalize_text(JoinWithSpace([k \in 1..3 |-> HayParts(topic)[k].text])))

\* the topic is dropped by "category != 'All' and t.get('category') != category"
CategoryDrops(t, cat) == cat # CAT_ALL /\ Get(t, K_category, Null) # Str(cat)

\* the loop body raises for t
FilterRaises(t, cat, query) ==
    \/ cat # CAT_ALL /\ t.tag # "dict"
    \/ ~CategoryDrops(t, cat) /\ SearchRaises(t, query)

\* filtered, when no topic raises
RECURSIVE FilterFrom(_, _, _, _)
FilterFrom(ts, i, cat, query) ==
    IF i > Len(ts) THEN <<>>
    ELSE IF CategoryDrops(ts[i], cat) THEN FilterFrom(ts, i + 1, cat, query)
    ELSE IF ~matches_search(ts[i], query) THEN FilterFrom(ts, i + 1, cat, query)
    ELSE <<ts[i]>> \o FilterFrom(ts, i + 1, cat, query)

----------------------------------------------------------------------------
(* safety_scan_topic *)

RECURSIVE collect(_), CollectEach(_, _)

\* out = []; for item in items: out.extend(collect(item))
CollectEach(items, i) ==
    IF i > Len(items) THEN <<>>
    ELSE collect(items[i]) \o CollectEach(items, i + 1)

\* mutant: the items are visited last to first
RECURSIVE CollectEachReversed(_, _)
CollectEachReversed(items, i) ==
    IF i > Len(items) THEN <<>>
    ELSE CollectEachReversed(items, i + 1) \o collect(items[i])

\* mutant: a list is walked in reverse index order
CollectListReversed(v) == CollectEachReversed(v.kids, 1)

\* for item in v: out.extend(collect(item))
CollectList(v) == CollectEach(v.kids, 1)

\* mutant: the dict branch is missing, a nested mapping yields nothing
CollectDictSkipped(v) == <<>>

\* for vv in v.values(): out.extend(collect(vv))
CollectDict(v) == CollectEach(v.kids, 1)

collect(v) ==
    IF v.tag = "str" THEN <<v.text>>
    ELSE IF v.tag = "list" THEN CollectList(v)
    ELSE IF v.tag = "dict" THEN CollectDict(v)
    ELSE <<>>

\* mutant: the marker is appended only when the text was cut
ExcerptOnlyWhenCut(s) ==
    IF Len(s) > ExcerptLen THEN Take(s, ExcerptLen) \o <<46,46,46>> (* '...' *) ELSE s

\* {s[:140]}...
Excerpt(s) == Take(s, ExcerptLen) \o <<46,46,46>> (* '...' *)

\* f'Banned phrase "{phrase}" found in: {s[:140]}...'
BannedMessage(phrase, s) ==
    <<66,97,110,110,101,100,32,112,104,114,97,115,101,32,34>> (* 'Banned phrase \u0022' *) \o phrase \o <<34,32,102,111,117,110,100,32,105,110,58,32>> (* '\u0022 found in: ' *) \o Excerpt(s)

\* f"Long sentence ({wc} words): {sent[:140]}..."
LongMessage(wc, sent) ==
    <<76,111,110,103,32,115,101,110,116,101,110,99,101,32,40>> (* 'Long sentence (' *) \o ToDecimal(wc) \o <<32,119,111,114,100,115,41,58,32>> (* ' words): ' *) \o Excerpt(sent)

\* mutant: the text is normalized (whitespace collapsed, trimmed) before matching
MatchFormNormalized(s) == normalize_text(s)

\* low = s.lower()
MatchForm(s) == Lower(s)

\* mutant: the loop over the phrases has no break
RECURSIVE BannedNoBreak(_, _, _)
BannedNoBreak(s, low, i) ==
    IF i > Len(BANNED_PHRASES) THEN <<>>
    ELSE (IF IsSubstring(BANNED_PHRASES[i], low)
          THEN <<BannedMessage(BANNED_PHRASES[i], s)>> ELSE <<>>)
         \o BannedNoBreak(s, low, i + 1)

\* for phrase in BANNED_PHRASES: if phrase in low: append; break   (from entry i on)
RECURSIVE BannedFrom(_, _, _)
BannedFrom(s, low, i) ==
    IF i > Len(BANNED_PHRASES) THEN <<>>
    ELSE IF IsSubstring(BANNED_PHRASES[i], low)
         THEN <<BannedMessage(BANNED_PHRASES[i], s)>>
         ELSE BannedFrom(s, low, i + 1)

\* mutant: the threshold is inclusive
IsLongInclusive(wc) == wc >= LongSentenceWords

\* wc > 25
IsLong(wc) == wc > LongSentenceWords

\* mutant: the loop over the segments has no break
RECURSIVE LongNoBreak(_, _)
LongNoBreak(segs, i) ==
    IF i > Len(segs) THEN <<>>
    ELSE LET sent == Strip(segs[i])
         IN  (IF sent # <<>> /\ IsLong(WordCount(sent))
              THEN <<LongMessage(WordCount(sent), sent)>> ELSE <<>>)
             \o LongNoBreak(segs, i + 1)

\* for sent in segs: strip; skip if empty; count; if long: append; break   (from segment i on)
RECURSIVE LongFrom(_, _)
LongFrom(segs, i) ==
    IF i > Len(segs) THEN <<>>
    ELSE LET sent == Strip(segs[i])
         IN  IF sent = <<>> THEN LongFrom(segs, i + 1)
             ELSE IF IsLong(WordCount(sent))
                  THEN <<LongMessage(WordCount(sent), sent)>>
                  ELSE LongFrom(segs, i + 1)

\* mutant: the long-sentence warning is appended before the banned-phrase one
ScanOneSwapped(s) ==
    LongFrom(SplitSentences(s), 1) \o BannedFrom(s, MatchForm(s), 1)

\* the body of "for s in strings": what one string appends to warnings
ScanOne(s) ==
    BannedFrom(s, MatchForm(s), 1) \o LongFrom(SplitSentences(s), 1)

\* mutant: the list outlives the call, as a module-level or default-argument list would
InitialWarningsStale(old) == old

\* warnings = []
InitialWarnings(old) == <<>>

----------------------------------------------------------------------------
(* The expander of one topic *)

Item(kind, text) == [kind |-> kind, text |-> text]

RECURSIVE Captions(_, _)
Captions(ws, i) ==
    IF i > Len(ws) THEN <<>>
    ELSE <<Item("caption", <<45,32>> (* '- ' *) \o ws[i])>> \o Captions(ws, i + 1)

\* mutant: every warning is shown
ShownAll(ws) == ws

\* warns[:8]
Shown(ws) == Take(ws, MaxShown)

\* if warns: st.warning(...); for w in warns[:8]: st.caption(f"- {w}")  else: st.success(...)
ShowWarnings(ws) ==
    IF ws # <<>>
    THEN <<Item("warning", <<>>)>> \o Captions(Shown(ws), 1)
    ELSE <<Item("success", <<>>)>>

\* if extra_detail and t.get("extraDetail", {}).get(key): st.caption(...)
\* (reached only when extraDetail, if present, is a dict: line 345 raises otherwise)
ShowsDetail(t, extra, key) ==
    extra /\ Truthy(Get(Get(t, K_extraDetail, Dict(<<>>, <<>>)), key, Null))

\* visuals[0] or videos[0] exists and has .get
FirstIsDict(v) == v.tag = "list" /\ v.kids # <<>> /\ v.kids[1].tag = "dict"

\* The sections of lines 342-411 in order: <<heading, entered, raises, detail>>.  A section
\* that is entered writes its heading; "raises" is the exception its body then runs into;
\* "detail" is its extra-detail caption.
Sections(t, eli5, extra) ==
    LET visuals   == Get(t, K_visuals, List(<<>>))
        videos    == Get(t, K_videos, List(<<>>))
        resources == Get(t, K_resources, List(<<>>))
        analogy   == Get(t, K_analogy, Dict(<<>>, <<>>))
        questions == Get(t, K_questionsForClinician, Null)
    IN  << \* 342-346: .get on an extraDetail that is no dict
           << "summary", TRUE,
              extra /\ Get(t, K_extraDetail, Dict(<<>>, <<>>)).tag # "dict",
              ShowsDetail(t, extra, K_oneMinuteSummary) >>,
           \* 348-350
           << "eli5", eli5, FALSE, FALSE >>,
           \* 352-356
           << "whatsHappening", TRUE,
              NotIterable(Get(t, K_whatsHappening, List(<<>>))),
              ShowsDetail(t, extra, K_whatsHappening) >>,
           \* 358-364: analogy.get on a non-dict
           << "analogy", TRUE,
              Truthy(analogy) /\ analogy.tag # "dict",
              Truthy(analogy) /\ ShowsDetail(t, extra, K_analogy) >>,
           \* 366-370
           << "peopleOftenNotice", TRUE,
              NotIterable(Get(t, K_peopleOftenNotice, List(<<>>))),
              ShowsDetail(t, extra, K_peopleOftenNotice) >>,
           \* 372-377
           << "generalSelfCare", TRUE,
              NotIterable(Get(t, K_generalSelfCare, List(<<>>))),
              ShowsDetail(t, extra, K_generalSelfCare) >>,
           \* 379-384
           << "questions",
              Get(t, K_category, Null) = Str(CAT_POST) /\ Truthy(questions),
              NotIterable(questions),
              ShowsDetail(t, extra, K_questionsForClinician) >>,
           \* 386-391: visuals[0].get, then src.replace in render_image
           << "visual", TRUE,
              Truthy(visuals) /\ (~FirstIsDict(visuals)
                                  \/ Get(visuals.kids[1], K_src, Str(<<>>)).tag # "str"),
              FALSE >>,
           \* 393-399: videos[0].get
           << "video", Truthy(videos), ~FirstIsDict(videos), FALSE >>,
           \* 401-409: r.get for every r in resources
           << "resources", TRUE,
              Truthy(resources) /\ (resources.tag # "list"
                                    \/ \E k \in 1..Len(resources.kids) : resources.kids[k].tag # "dict"),
              FALSE >>,
           \* 411
           << "lastReviewed", TRUE, FALSE, FALSE >> >>

\* the content of the topic raises
ContentRaises(t, eli5, extra) ==
    \E k \in 1..Len(Sections(t, eli5, extra)) :
        Sections(t, eli5, extra)[k][2] /\ Sections(t, eli5, extra)[k][3]

\* what the sections from k on write: heading and caption of each section entered, up to
\* the heading of the section that raises
RECURSIVE ContentFrom(_, _)
ContentFrom(secs, k) ==
    IF k > Len(secs) THEN <<>>
    ELSE IF ~secs[k][2] THEN ContentFrom(secs, k + 1)
    ELSE IF secs[k][3] THEN <<Item(secs[k][1], <<>>), Item("exception", <<>>)>>
    ELSE <<Item(secs[k][1], <<>>)>>
           \o (IF secs[k][4] THEN <<Item("detail", <<>>)>> ELSE <<>>)
           \o ContentFrom(secs, k + 1)

----------------------------------------------------------------------------
(* Bounds of the inputs *)

MaxWords == 27      \* most words in one generated sentence
MaxDepth == 2       \* nesting depth of the generated value under extraDetail
MaxItems == 5       \* items in the generated generalSelfCare list
MaxTopics == 2      \* most topics in topics.json

----------------------------------------------------------------------------
(* Inputs: the strings, topics, files and widget values the runs work on *)

\* n copies of word w joined by sep
RECURSIVE Words(_, _, _)
Words(n, w, sep) ==
    IF n = 0 THEN <<>>
    ELSE IF n = 1 THEN w
    ELSE Words(n - 1, w, sep) \o sep \o w

PhraseHeads == { <<>>, <<121,111,117,32,115,104,111,117,108,100>> (* 'you should' *), <<89,111,117,32,83,104,111,117,108,100>> (* 'You Should' *), <<109,105,115>> (* 'mis' *), <<77,111,115,116,32,108,105,107,101,108,121,32,97>> (* 'Most likely a' *), <<115,116,97,114,116>> (* 'start' *) }
\* nothing, a space, two spaces, a newline, a no-break space
PhraseSeps  == { <<>>, <<32>> (* ' ' *), <<32,32>> (* '  ' *), <<10>> (* '\n' *), <<160>> (* '\u00a0' *) }
PhraseMids  == { <<116,97,107,101>> (* 'take' *), <<116,97,107,105,110,103>> (* 'taking' *), <<68,111,115,101>> (* 'Dose' *), <<68,79,83,65,71,69>> (* 'DOSAGE' *) }
PhraseTails == { <<>>, <<32,105,116,46>> (* ' it.' *), <<32,99,97,114,101>> (* ' care' *) }

PhraseStrings ==
    { h \o s \o m \o t : h \in PhraseHeads, s \in PhraseSeps, m \in PhraseMids, t \in PhraseTails }

\* strings whose lowercase form is not their A-Z lowercase: a Kelvin sign for K, a dotted
\* capital I (two characters in lowercase), a capital sigma at the end of a word and inside
\* one, an accented capital
CaseStrings ==
    { <<84,65,8490,69,32,99,97,114,101>> (* 'TA\u212aE care' *), <<68,304,65,71,78,79,83,73,83,58,32,110,111,110,101>> (* 'D\u0130AGNOSIS: none' *), <<68,79,931,69>> (* 'DO\u03a3E' *), <<68,79,931>> (* 'DO\u03a3' *),
      <<201,116,201,32,100,111,115,101>> (* '\u00c9t\u00c9 dose' *) }

WordCounts == {0, 1} \cup (LongSentenceWords..MaxWords)
\* <<word, separator>>: a vertical tab and a newline, a space
WordKinds  == { << <<119>> (* 'w' *), <<11,10>> (* '\u000b\n' *) >>, << <<76,111,114,101,109>> (* 'Lorem' *), <<32>> (* ' ' *) >> }
SentLeads  == { <<>>, <<32>> (* ' ' *), <<68,111,115,101,46,32>> (* 'Dose. ' *) }
SentTerms  == { <<>>, <<46>> (* '.' *), <<33>> (* '!' *), <<63,32>> (* '? ' *) }

SentenceStrings ==
    { l \o Words(n1, k[1], k[2]) \o t \o Words(n2, k[1], k[2]) :
        l \in SentLeads, n1 \in WordCounts, t \in SentTerms, n2 \in WordCounts, k \in WordKinds }

StringPool == PhraseStrings \cup CaseStrings \cup SentenceStrings

CleanText  == <<82,101,115,116,32,97,110,100,32,102,108,117,105,100,115,46>> (* 'Rest and fluids.' *)
BannedText == <<84,97,107,101,32,97,32,100,111,115,101>> (* 'Take a dose' *)
\* two banned phrases and two over-long sentences
BothText   ==
    <<77,111,115,116,32,108,105,107,101,108,121,32,97,32,100,111,115,101,46,32>> (* 'Most likely a dose. ' *)
        \o Words(LongSentenceWords + 1, <<119>> (* 'w' *), <<32>> (* ' ' *)) \o <<33,32>> (* '! ' *)
        \o Words(LongSentenceWords + 2, <<120>> (* 'x' *), <<32>> (* ' ' *))

LeafTexts == {CleanText, BannedText, BothText}
Leaves    == {Str(s) : s \in LeafTexts} \cup {Num(7), Bool(TRUE), Null}

RECURSIVE Trees(_)
Trees(d) ==
    IF d = 0 THEN Leaves
    ELSE LET T == Trees(d - 1)
         IN  T \cup {List(<<>>)}
               \cup {List(<<Str(a), b>>) : a \in LeafTexts, b \in T}
               \cup {Dict(<<K_generalSelfCare, K_lastReviewed>>, <<b, Str(a)>>) : b \in T, a \in LeafTexts}

StrTopics  == { Dict(<<K_oneMinuteSummary>>, <<Str(s)>>) : s \in StringPool }
TreeTopics == { Dict(<<K_title, K_extraDetail>>, <<Str(a), b>>) : a \in LeafTexts, b \in Trees(MaxDepth) }

\* a well-formed topic whose scan returns two warnings for each generalSelfCare item
AsthmaTopic ==
    Dict(<< K_title, K_category, K_generalSelfCare, K_questionsForClinician, K_extraDetail >>,
         << Str(<<65,115,116,104,109,97,32,98,97,115,105,99,115>> (* 'Asthma basics' *)), Str(CAT_POST),
            List([i \in 1..MaxItems |-> Str(BothText)]),
            List(<<Str(<<87,104,97,116,32,116,114,105,103,103,101,114,115,32,105,116,63>> (* 'What triggers it?' *))>>),
            Dict(<<K_generalSelfCare>>, <<Str(<<82,101,115,116,32,109,111,114,101,46>> (* 'Rest more.' *))>>) >>)
\* a well-formed topic without warnings
HeadacheTopic ==
    Dict(<< K_title, K_category, K_oneMinuteSummary >>,
         << Str(<<72,101,97,100,97,99,104,101>> (* 'Headache' *)), Str(<<69,118,101,114,121,100,97,121,32,83,121,109,112,116,111,109,115>> (* 'Everyday Symptoms' *)), Str(CleanText) >>)
\* a topic with fields of the wrong shape: a number as summary, a string as extraDetail
HeartburnTopic ==
    Dict(<< K_title, K_category, K_oneMinuteSummary, K_extraDetail >>,
         << Str(<<72,101,97,114,116,98,117,114,110>> (* 'Heartburn' *)), Str(<<69,118,101,114,121,100,97,121,32,83,121,109,112,116,111,109,115>> (* 'Everyday Symptoms' *)), Num(3), Str(BannedText) >>)

AppTopics  == { AsthmaTopic, HeadacheTopic, HeartburnTopic }

TopicLists(pool, n) == UNION { [1..m -> pool] : m \in 0..n }

\* what topics.json is edited to between two runs: no topic, or a string where a topic belongs
EditedFiles == { <<>>, <<Str(BannedText)>> }

\* what the user types into "Search topics"
Queries == { <<>>, <<32,32,65,83,84,72,77,65,9>> (* '  ASTHMA\t' *) }

----------------------------------------------------------------------------
(* The script run *)

\* topics = load_topics() when the file exists, then lines 273-298
Loaded(ts, cat, query) ==
    LET raises == \E i \in 1..Len(ts) : FilterRaises(ts[i], cat, query)
        out    == IF raises THEN <<>> ELSE FilterFrom(ts, 1, cat, query)
    IN  [ topics   |-> ts,
          filtered |-> out,
          notice   |-> IF raises THEN "exception" ELSE IF out = <<>> THEN "nomatch" ELSE "none",
          pc       |-> IF out = <<>> THEN "done" ELSE "card" ]

\* load_topics() when the file is missing: st.error, st.stop
Missing ==
    [ topics |-> <<>>, filtered |-> <<>>, notice |-> "missing", pc |-> "done" ]

\* the first run of a session: every widget has its default value
InitWith(lists) ==
    /\ category = CAT_ALL
    /\ q = <<>>
    /\ eli5_mode = TRUE
    /\ extra_detail = FALSE
    /\ dev_mode = FALSE
    /\ \E ts \in lists :
          /\ topics = Loaded(ts, CAT_ALL, <<>>).topics
          /\ filtered = Loaded(ts, CAT_ALL, <<>>).filtered
          /\ notice = Loaded(ts, CAT_ALL, <<>>).notice
          /\ pc = Loaded(ts, CAT_ALL, <<>>).pc
    /\ idx = 1
    /\ strings = <<>>
    /\ si = 0
    /\ warnings = <<>>
    /\ warns = <<>>
    /\ screen = [i \in 1..Len(filtered) |-> <<>>]
    /\ lastWarns = {}

Init     == InitWith(TopicLists(AppTopics, MaxTopics))
InitStr  == InitWith({<<t>> : t \in StrTopics})
InitTree == InitWith({<<t>> : t \in TreeTopics})

\* title = t.get("title", "Untitled") ... and the card header of topic idx
RenderCard ==
    /\ pc = "card"
    /\ IF filtered[idx].tag = "dict"
       THEN /\ screen' = [screen EXCEPT ![idx] = Append(@, Item("card", <<>>))]
            /\ pc' = "expander"
            /\ UNCHANGED notice
       ELSE /\ screen' = [screen EXCEPT ![idx] = Append(@, Item("exception", <<>>))]
            /\ pc' = "done"
            /\ notice' = "exception"
    /\ UNCHANGED <<topics, category, q, eli5_mode, extra_detail, dev_mode, filtered, idx,
                   strings, si, warnings, warns, lastWarns>>

\* if dev_mode: warns = safety_scan_topic(t)  -- the call: warnings = [], strings = collect(topic)
ScanBegin ==
    /\ pc = "expander"
    /\ dev_mode
    /\ warnings' = InitialWarnings(warns)
    /\ strings' = collect(filtered[idx])
    /\ si' = 1
    /\ pc' = "scan"
    /\ UNCHANGED <<topics, category, q, eli5_mode, extra_detail, dev_mode, filtered, idx,
                   warns, screen, notice, lastWarns>>

\* if dev_mode: is false, nothing is scanned or shown
SkipScan ==
    /\ pc = "expander"
    /\ ~dev_mode
    /\ pc' = "content"
    /\ UNCHANGED <<topics, category, q, eli5_mode, extra_detail, dev_mode, filtered, idx,
                   strings, si, warnings, warns, screen, notice, lastWarns>>

\* one iteration of "for s in strings"
ScanString ==
    /\ pc = "scan"
    /\ si <= Len(strings)
    /\ warnings' = warnings \o ScanOne(strings[si])
    /\ si' = si + 1
    /\ UNCHANGED <<topics, category, q, eli5_mode, extra_detail, dev_mode, filtered, pc, idx,
                   strings, warns, screen, notice, lastWarns>>

\* return warnings; the caller shows them
ScanReturn ==
    /\ pc = "scan"
    /\ si > Len(strings)
    /\ warns' = warnings
    /\ screen' = [screen EXCEPT ![idx] = @ \o ShowWarnings(warnings)]
    /\ lastWarns' = {h \in lastWarns : h.topic # filtered[idx]}
                      \cup {[topic |-> filtered[idx], result |-> warnings]}
    /\ strings' = <<>>
    /\ si' = 0
    /\ warnings' = <<>>
    /\ pc' = "content"
    /\ UNCHANGED <<topics, category, q, eli5_mode, extra_detail, dev_mode, filtered, idx, notice>>

\* the sections of the topic, then the next topic; an exception ends the run
RenderContent ==
    /\ pc = "content"
    /\ screen' = [screen EXCEPT ![idx] =
                     @ \o ContentFrom(Sections(filtered[idx], eli5_mode, extra_detail), 1)]
    /\ IF ContentRaises(filtered[idx], eli5_mode, extra_detail)
       THEN /\ notice' = "exception"
            /\ pc' = "done"
            /\ UNCHANGED idx
       ELSE /\ idx' = IF idx < Len(filtered) THEN idx + 1 ELSE idx
            /\ pc' = IF idx < Len(filtered) THEN "card" ELSE "done"
            /\ UNCHANGED notice
    /\ UNCHANGED <<topics, category, q, eli5_mode, extra_detail, dev_mode, filtered,
                   strings, si, warnings, warns, lastWarns>>

\* the values of the widgets in this run
Widgets ==
    [category |-> category, q |-> q, eli5_mode |-> eli5_mode,
     extra_detail |-> extra_detail, dev_mode |-> dev_mode]

\* the widget values of the next run: at most one widget, one of those named, differs
Interactions(names) ==
    { w \in [category : {CATEGORIES[i] : i \in 1..Len(CATEGORIES)}, q : Queries,
             eli5_mode : BOOLEAN, extra_detail : BOOLEAN, dev_mode : BOOLEAN] :
        /\ \A f \in DOMAIN w : w[f] # Widgets[f] => f \in names
        /\ Cardinality({f \in DOMAIN w : w[f] # Widgets[f]}) <= 1 }

\* A widget interaction reruns the script from the top with the widget's new value: the
\* next run has widget values w and finds one of the files, or none if canMiss.  The
\* interaction takes effect at the next st.* call of the running script, which is
\* abandoned there, or after the run has ended; the scan itself makes no such call.
RerunWith(ws, files, canMiss) ==
    /\ pc # "scan"
    /\ \E w \in ws :
          /\ category' = w.category
          /\ q' = w.q
          /\ eli5_mode' = w.eli5_mode
          /\ extra_detail' = w.extra_detail
          /\ dev_mode' = w.dev_mode
          /\ \E run \in {Loaded(ts, w.category, w.q) : ts \in files}
                            \cup (IF canMiss THEN {Missing} ELSE {}) :
                /\ topics' = run.topics
                /\ filtered' = run.filtered
                /\ notice' = run.notice
                /\ pc' = run.pc
    /\ idx' = 1
    /\ warns' = <<>>
    /\ screen' = [i \in 1..Len(filtered') |-> <<>>]
    /\ lastWarns' = {h \in lastWarns : \E i \in 1..Len(topics') : topics'[i] = h.topic}
    /\ UNCHANGED <<strings, si, warnings>>

\* any widget, and topics.json as it was, edited, or missing
Rerun ==
    RerunWith(Interactions({"category", "q", "eli5_mode", "extra_detail", "dev_mode"}),
              {topics} \cup EditedFiles, TRUE)

\* the "Developer safety warnings" toggle, topics.json as it was
ToggleDeveloper ==
    RerunWith(Interactions({"dev_mode"}), {topics}, FALSE)

Next ==
    \/ RenderCard
    \/ ScanBegin
    \/ SkipScan
    \/ ScanString
    \/ ScanReturn
    \/ RenderContent
    \/ Rerun

\* a session in which the only widget used is the developer toggle
NextScan ==
    \/ RenderCard
    \/ ScanBegin
    \/ SkipScan
    \/ ScanString
    \/ ScanReturn
    \/ RenderContent
    \/ ToggleDeveloper

\* sessions over a file of the app's topics, with every widget and the file changing
Spec     == Init /\ [][Next]_vars
\* developer-toggle sessions over a one-topic file whose summary is a string of the pool
SpecStr  == InitStr /\ [][NextScan]_vars
\* developer-toggle sessions over a one-topic file with a nested value under extraDetail
SpecTree == InitTree /\ [][NextScan]_vars

----------------------------------------------------------------------------
(* Vocabulary of the properties *)

BannedPrefix == <<66,97,110,110,101,100,32,112,104,114,97,115,101,32,34>> (* 'Banned phrase \u0022' *)
FoundIn      == <<34,32,102,111,117,110,100,32,105,110,58,32>> (* '\u0022 found in: ' *)
LongPrefix   == <<76,111,110,103,32,115,101,110,116,101,110,99,101,32,40>> (* 'Long sentence (' *)
WordsColon   == <<32,119,111,114,100,115,41,58,32>> (* ' words): ' *)
Marker       == <<46,46,46>> (* '...' *)

StartsWith(w, p) == Len(w) >= Len(p) /\ SubSeq(w, 1, Len(p)) = p
IsBannedWarning(w) == StartsWith(w, BannedPrefix)
IsLongWarning(w)   == StartsWith(w, LongPrefix)
NamesPhrase(w, p)  == StartsWith(w, BannedPrefix \o p \o FoundIn)
ReportsCount(w, n) == StartsWith(w, LongPrefix \o ToDecimal(n) \o WordsColon)

\* p occurs in s at offset i, character by character
OccursAt(p, s, i) == i + Len(p) <= Len(s) /\ \A j \in 1..Len(p) : s[i + j] = p[j]
Occurs(p, s) == \E i \in 0..Len(s) : OccursAt(p, s, i)

\* the table entries contained in the lowercased string
Hits(s) == {i \in 1..Len(BANNED_PHRASES) : Occurs(BANNED_PHRASES[i], Lower(s))}

\* the trimmed, non-empty sentence segments of s, in order
Segments(s) == SelectSeq([k \in 1..Len(SplitSentences(s)) |-> Strip(SplitSentences(s)[k])],
                         LAMBDA x : x # <<>>)
\* the positions of the segments of more than 25 words
OverLong(s) == {k \in 1..Len(Segments(s)) : WordCount(Segments(s)[k]) > 25}

\* the paths (child indices from the root) of a value, and the node at a path
RECURSIVE PathsOf(_)
PathsOf(v) ==
    {<<>>} \cup UNION { {<<i>> \o p : p \in PathsOf(v.kids[i])} : i \in 1..Len(v.kids) }
RECURSIVE NodeAt(_, _)
NodeAt(v, p) == IF p = <<>> THEN v ELSE NodeAt(v.kids[Head(p)], Tail(p))
StringPaths(v) == {p \in PathsOf(v) : NodeAt(v, p).tag = "str"}
\* p comes before r in depth-first order
Before(p, r) ==
    \E k \in 1..Len(p) :
        /\ k <= Len(r)
        /\ SubSeq(p, 1, k - 1) = SubSeq(r, 1, k - 1)
        /\ p[k] < r[k]
\* the string leaves of v in depth-first order
LeavesInOrder(v) ==
    LET P == StringPaths(v)
    IN  [k \in 1..Cardinality(P) |->
            NodeAt(v, CHOOSE p \in P : Cardinality({r \in P : Before(r, p)}) = k - 1).text]
\* every key of every mapping in v
KeysOf(v) == UNION { {NodeAt(v, p).keys[i] : i \in 1..Len(NodeAt(v, p).keys)} : p \in PathsOf(v) }

\* s has neither a banned phrase nor an over-long sentence
CleanString(s) == Hits(s) = {} /\ OverLong(s) = {}

\* w is a warning about the string s, with the excerpt the text prescribes
IsBannedWarningOf(w, s) ==
    \E i \in 1..Len(BANNED_PHRASES) :
        w = BannedPrefix \o BANNED_PHRASES[i] \o FoundIn \o Take(s, 140) \o Marker
IsLongWarningOf(w, s) ==
    \E k \in 1..Len(Segments(s)) :
        w = LongPrefix \o ToDecimal(WordCount(Segments(s)[k])) \o WordsColon
              \o Take(Segments(s)[k], 140) \o Marker

\* the first string of the scan has just been checked
ScannedFirst == pc = "scan" /\ si = 2
\* what the step that checks one string appended
Appended == SubSeq(warnings', Len(warnings) + 1, Len(warnings'))
\* the run has got past the scan block of topic i and into its content
ContentStarted(i) ==
    \/ i < idx
    \/ i = idx /\ pc = "done" /\ screen[i] # <<>> /\ screen[i][1].kind = "card"
\* the scan of topic i has returned in this run
Returned(i) == dev_mode /\ (ContentStarted(i) \/ (i = idx /\ pc = "content"))
\* the warnings the last scan of topic t returned
ResultOf(t) == (CHOOSE h \in lastWarns : h.topic = t).result
CaptionsOf(sc) == SelectSeq(sc, LAMBDA it : it.kind = "caption")
HasKind(sc, k) == \E n \in 1..Len(sc) : sc[n].kind = k

----------------------------------------------------------------------------
(* C1: the banned phrases are tested in table order by plain substring    *)
(* containment in the lowercased string; a string that contains no entry  *)
(* gets no BannedPhrase warning, and one that contains one or more gets   *)
(* exactly one, naming the earliest contained entry of the table.         *)
C1_FirstPhraseInTableOrder ==
    ScannedFirst =>
        LET s  == strings[1]
            bw == SelectSeq(warnings, IsBannedWarning)
        IN  IF Hits(s) = {} THEN bw = <<>>
            ELSE /\ Len(bw) = 1
                 /\ NamesPhrase(bw[1], BANNED_PHRASES[SetMin(Hits(s))])

\* two table entries are contained, "take " inside a longer word, and the one warning names "take "
C1_Witness ==
    /\ ScannedFirst
    /\ Hits(strings[1]) = {2, 6}
    /\ \E i \in 1..Len(strings[1]) :
          /\ OccursAt(BANNED_PHRASES[2], Lower(strings[1]), i)
          /\ strings[1][i] \notin Whitespace
    /\ Len(warnings) = 1
    /\ NamesPhrase(warnings[1], BANNED_PHRASES[2])

(* C2 as stated: the string is normalized (whitespace runs collapsed,     *)
(* trimmed, lowercased) before the check, so it is flagged with the first *)
(* table entry its normalized form contains.                              *)
C2_FlaggedAsNormalizedForm ==
    ScannedFirst =>
        LET s  == strings[1]
            nh == {i \in 1..Len(BANNED_PHRASES) : Occurs(BANNED_PHRASES[i], normalize_text(s))}
            bw == SelectSeq(warnings, IsBannedWarning)
        IN  IF nh = {} THEN bw = <<>>
            ELSE Len(bw) = 1 /\ NamesPhrase(bw[1], BANNED_PHRASES[SetMin(nh)])

(* C2 amended: the string is only lowercased before the check; whitespace *)
(* is neither collapsed nor trimmed.  A warning names a phrase only when  *)
(* the phrase occurs in the lowercased string spaced exactly as in the    *)
(* table, so a string whose normalized form contains a multi-word phrase  *)
(* that the lowercased string does not contain is not flagged with it.    *)
C2_MatchedOnLowercaseOnly ==
    ScannedFirst =>
        \A i \in 1..Len(BANNED_PHRASES) :
            (\E n \in 1..Len(warnings) : NamesPhrase(warnings[n], BANNED_PHRASES[i]))
                => Occurs(BANNED_PHRASES[i], Lower(strings[1]))

\* "you should" and "take" separated by a newline: the normalized form holds the phrase, no warning
C2_Witness ==
    /\ ScannedFirst
    /\ Occurs(BANNED_PHRASES[1], normalize_text(strings[1]))
    /\ ~Occurs(BANNED_PHRASES[1], Lower(strings[1]))
    /\ \E i \in 1..Len(strings[1]) : strings[1][i] = 10
    /\ warnings = <<>>

(* C3: the long-sentence check splits the original string on '.', '!' and *)
(* '?', skips segments empty after trimming, and warns only for the first *)
(* segment of strictly more than 25 words, reporting its word count; 25   *)
(* words give no warning and 26 give one.                                 *)
C3_FirstSentenceOver25Words ==
    ScannedFirst =>
        LET s  == strings[1]
            lw == SelectSeq(warnings, IsLongWarning)
        IN  /\ IF OverLong(s) = {} THEN lw = <<>>
               ELSE /\ Len(lw) = 1
                    /\ ReportsCount(lw[1], WordCount(Segments(s)[SetMin(OverLong(s))]))
            /\ (s = Words(25, <<119>> (* 'w' *), <<11,10>> (* '\u000b\n' *)) => lw = <<>>)
            /\ (s = Words(26, <<119>> (* 'w' *), <<11,10>> (* '\u000b\n' *)) => Len(lw) = 1 /\ ReportsCount(lw[1], 26))

\* a 25-word sentence followed by a 26-word one, the words separated by a vertical tab and a
\* newline: the one warning reports 26 words
C3_Witness ==
    /\ ScannedFirst
    /\ Len(Segments(strings[1])) = 2
    /\ WordCount(Segments(strings[1])[1]) = 25
    /\ WordCount(Segments(strings[1])[2]) = 26
    /\ \E i \in 1..Len(strings[1]) : strings[1][i] = 11
    /\ Len(warnings) = 1
    /\ ReportsCount(warnings[1], 26)

(* C4: each string appends at most one BannedPhrase and at most one       *)
(* LongSentence warning, whatever it contains, so the returned list never *)
(* has more than twice as many warnings as the topic has string leaves.   *)
C4_AtMostOnePerKindPerString ==
    /\ [][ (pc = "scan" /\ si' = si + 1) =>
              /\ SubSeq(warnings', 1, Len(warnings)) = warnings
              /\ Len(Appended) <= 2
              /\ Len(SelectSeq(Appended, IsBannedWarning)) <= 1
              /\ Len(SelectSeq(Appended, IsLongWarning)) <= 1 ]_vars
    /\ [](pc = "content" /\ dev_mode =>
              Len(warns) <= 2 * Cardinality(StringPaths(filtered[idx])))

\* a string with two banned phrases and two over-long sentences gave exactly two warnings
C4_Witness ==
    /\ ScannedFirst
    /\ Cardinality(Hits(strings[1])) = 2
    /\ Cardinality(OverLong(strings[1])) = 2
    /\ Len(warnings) = 2

(* C5: collect returns every string leaf exactly once, in depth-first     *)
(* order (list items by index, mapping values in iteration order); keys   *)
(* are never returned and numbers, booleans and null contribute nothing.  *)
C5_LeavesDepthFirst ==
    pc = "scan" =>
        /\ strings = LeavesInOrder(filtered[idx])
        /\ \A n \in 1..Len(strings) : strings[n] \notin KeysOf(filtered[idx])

\* a topic with a mapping inside a list inside a mapping, and a scalar that is skipped
C5_Witness ==
    /\ pc = "scan"
    /\ \E p \in StringPaths(filtered[idx]) :
          /\ Len(p) = 3
          /\ NodeAt(filtered[idx], SubSeq(p, 1, 2)).tag = "dict"
          /\ NodeAt(filtered[idx], SubSeq(p, 1, 1)).tag = "list"
    /\ \E p \in PathsOf(filtered[idx]) : NodeAt(filtered[idx], p).tag \in {"num", "bool", "null"}
    /\ Len(strings) = 3

(* C6: the scan returns no warning exactly when no string leaf of the     *)
(* topic, at any depth, contains a banned phrase or a sentence of more    *)
(* than 25 words.                                                         *)
C6_EmptyIffEveryLeafClean ==
    (pc = "content" /\ dev_mode) =>
        ((warns = <<>>) <=>
            \A p \in StringPaths(filtered[idx]) : CleanString(NodeAt(filtered[idx], p).text))

\* the only offending string is extraDetail.generalSelfCare, and it is flagged
C6_Witness ==
    /\ pc = "content" /\ dev_mode
    /\ CleanString(filtered[idx].kids[1].text)
    /\ filtered[idx].keys[2] = K_extraDetail
    /\ filtered[idx].kids[2].tag = "dict"
    /\ filtered[idx].kids[2].keys[1] = K_generalSelfCare
    /\ filtered[idx].kids[2].kids[1].tag = "str"
    /\ ~CleanString(filtered[idx].kids[2].kids[1].text)
    /\ CleanString(filtered[idx].kids[2].kids[2].text)
    /\ Len(warns) = 1
    /\ IsBannedWarning(warns[1])

(* C7: a warning's excerpt is the first 140 characters of its source      *)
(* followed by "...", appended even when the source is shorter; the       *)
(* source of a BannedPhrase warning is the original string, that of a     *)
(* LongSentence warning the trimmed offending segment.                    *)
C7_ExcerptAlwaysMarked ==
    ScannedFirst =>
        \A n \in 1..Len(warnings) :
            /\ IsBannedWarning(warnings[n]) => IsBannedWarningOf(warnings[n], strings[1])
            /\ IsLongWarning(warnings[n]) => IsLongWarningOf(warnings[n], strings[1])
            /\ IsBannedWarning(warnings[n]) \/ IsLongWarning(warnings[n])

\* "Dose" gives the excerpt "Dose...": shorter than 140 characters, capital kept, marker appended
C7_Witness ==
    /\ ScannedFirst
    /\ strings[1] = <<68,111,115,101>> (* 'Dose' *)
    /\ warnings = << BannedPrefix \o <<100,111,115,101>> (* 'dose' *) \o FoundIn \o <<68,111,115,101,46,46,46>> (* 'Dose...' *) >>

(* C8: the warnings are in discovery order: each string appends its       *)
(* warnings after those of the strings before it in the depth-first       *)
(* traversal, its BannedPhrase warning before its LongSentence warning,   *)
(* and the list is returned as built.                                     *)
C8_DiscoveryOrder ==
    /\ [][ (pc = "scan" /\ si' = si + 1) =>
              LET leaf == LeavesInOrder(filtered[idx])[si]
              IN  /\ SubSeq(warnings', 1, Len(warnings)) = warnings
                  /\ \A n \in 1..Len(Appended) :
                        IsBannedWarningOf(Appended[n], leaf) \/ IsLongWarningOf(Appended[n], leaf)
                  /\ Len(Appended) = 2 =>
                        IsBannedWarning(Appended[1]) /\ IsLongWarning(Appended[2]) ]_vars
    /\ [][ (pc = "scan" /\ pc' = "content") => warns' = warnings ]_vars

\* the first leaf gave both kinds, the second one: three warnings in that order
C8_Witness ==
    /\ pc = "content" /\ dev_mode
    /\ LeavesInOrder(filtered[idx]) = <<BothText, BannedText>>
    /\ Len(warns) = 3
    /\ IsBannedWarningOf(warns[1], BothText)
    /\ IsLongWarningOf(warns[2], BothText)
    /\ IsBannedWarningOf(warns[3], BannedText)

(* C9: a scan leaves the loaded topics and the displayed topics           *)
(* unchanged, and keeps nothing between calls: when a scan returns, its   *)
(* result equals the result of the last earlier scan of the same topic    *)
(* value, whichever runs and scans of other topics came in between.       *)
C9_ScanIsPure ==
    /\ [][ pc = "scan" => (topics' = topics /\ filtered' = filtered) ]_vars
    /\ [][ (pc = "scan" /\ pc' = "content") =>
              \A h \in lastWarns : h.topic = filtered[idx] => h.result = warns' ]_vars

\* the first topic is being scanned again, after a scan of a different topic, and the scan
\* is about to return what it returned before
C9_Witness ==
    /\ pc = "scan" /\ si > Len(strings) /\ idx = 1
    /\ Len(filtered) = 2
    /\ filtered[1] # filtered[2]
    /\ \E h \in lastWarns : h.topic = filtered[2] /\ h.result # <<>>
    /\ \E h \in lastWarns : h.topic = filtered[1] /\ h.result = warnings
    /\ warnings # <<>>

(* C10: with developer mode on, the expander shows the first min(8, n) of *)
(* the n warnings the scan returned, in order, and the success state only *)
(* when n = 0; the One-Minute Summary section follows directly, whatever  *)
(* n is; with developer mode off no scan runs, nothing about warnings is  *)
(* shown and the content starts right after the card.                     *)
C10_DisplayPolicy ==
    \A i \in 1..Len(filtered) :
        LET sc == screen[i]
        IN  /\ Returned(i) =>
                /\ \E h \in lastWarns : h.topic = filtered[i]
                /\ LET ws == ResultOf(filtered[i])
                       n  == IF Len(ws) < 8 THEN Len(ws) ELSE 8
                   IN  /\ CaptionsOf(sc) =
                              [k \in 1..n |-> [kind |-> "caption", text |-> <<45,32>> (* '- ' *) \o ws[k]]]
                       /\ HasKind(sc, "success") <=> (ws = <<>>)
                       /\ HasKind(sc, "warning") <=> (ws # <<>>)
                       /\ \A k \in 1..n : sc[2 + k].kind = "caption"
                       /\ ContentStarted(i) =>
                              sc[(IF ws = <<>> THEN 2 ELSE 2 + n) + 1].kind = "summary"
            /\ ~dev_mode =>
                /\ pc # "scan"
                /\ ~HasKind(sc, "warning") /\ ~HasKind(sc, "caption") /\ ~HasKind(sc, "success")
                /\ ContentStarted(i) => sc[2].kind = "summary"

\* a scan returned more than 8 warnings: 8 captions, then the content to its last section
C10_Witness ==
    /\ pc = "done" /\ dev_mode /\ notice = "none"
    /\ Len(filtered) >= 1
    /\ \E h \in lastWarns : h.topic = filtered[1] /\ Len(h.result) > 8
    /\ Len(CaptionsOf(screen[1])) = 8
    /\ screen[1][11].kind = "summary"
    /\ screen[1][Len(screen[1])].kind = "lastReviewed"

====
